---- MODULE Spec2Model ----
(***************************************************************************)
(* Room lifecycle and task/timer coordination of the housekeeping system:  *)
(* the useRooms hook (changeRoomStatus, startTask, pauseTask, resumeTask,  *)
(* finishTask), the zustand store it drives (rooms, timer, notifications)  *)
(* and the durable tables it writes through lib/supabase (rooms,           *)
(* audit_logs, work_logs).                                                 *)
(*                                                                         *)
(* Every handler is one action; a repository call that throws is the input *)
(* `fail`.                                                                 *)
(*                                                                         *)
(* Spec      the handlers called for room A101, any repository call may    *)
(*           throw;                                                        *)
(* SpecRooms the handlers called for both rooms, no repository call throws;*)
(* SpecTimer the handlers, the tick interval and the store's timer actions *)
(*           under a moving clock;                                         *)
(* SpecFlows the handlers as the dashboards call them, with the inspection *)
(*           records;                                                      *)
(* SpecAwait the handlers suspended at each repository call they await;    *)
(* SpecNotes the notification list of the store;                           *)
(* SpecTicker the interval that calls tick();                              *)
(* SpecModal the room modal and the statuses it offers;                    *)
(* SpecStore the store's updateRoom on its own;                            *)
(* SpecPush  the subscription to the rooms table and the events pushed;    *)
(* SpecActors two sessions against one durable store;                      *)
(* SpecAudit the audit trail and the queries run on it;                    *)
(* SpecOverlap pauseTask and resumeTask suspended at the call they await;  *)
(* SpecLive  one session under the assumption that a finishTask whose      *)
(*           calls succeed is eventually made;                             *)
(* SpecLogin one browser in which a profile is selected and logged out;    *)
(* SpecFormat the durations the dashboards render with formatDuration.     *)
(***************************************************************************)
EXTENDS Integers, Sequences, FiniteSets, TLC

(***************************************************************************)
(* Bounds of the model.                                                    *)
(***************************************************************************)
\* rows written to the durable store: committed status writes and work logs
MaxRows == 2

\* the last reading of the clock, in milliseconds
MaxClockMs == 4000

\* the width, in seconds, of each range of durations that is formatted
MaxSeconds == 7300

\* rows written to the durable store by the dashboards' flows
MaxFlowRows == 3

\* notifications added since the list was last cleared
MaxAdded == 51

\* intervals created by setInterval
MaxIntervals == 3

\* rows of audit_logs under the audit query
MaxAuditRows == 3

\* notifications added with an id the generator had issued before
MaxRepeats == 1

(***************************************************************************)
(* Types.                                                                  *)
(***************************************************************************)
\* a nullable value: null is <<>>, a value v is <<v>>
Null == <<>>
Some(v) == <<v>>
IsNull(x) == x = <<>>
Val(x) == x[1]

RoomStatus ==
  {"Dirty", "Check-out Inspected", "Cleaning", "Vacant Clean",
   "Vacant Clean Inspected", "Occupied", "Out of Order"}

TaskType == {"Cleaning", "Inspection", "Repair", "Maintenance"}

\* room numbers; a room's id and its room_number name the same room
RoomNumbers == {"A101", "B203"}

\* the profile of the logged-in staff member
Profiles == {"hk1"}

\* period of the tick interval, in milliseconds
TickIntervalMs == 1000

\* the `fail` input: which repository call of the handler throws
NoFailure == "none"

\* the inspection score from which a room passes
InspectionPassScore == 80

\* the notifications the store keeps
MaxNotifications == 50

\* the scores an inspection is submitted with
Scores == {0, 79, 80, 100}

(***************************************************************************)
(* Status workflow table of the room modal.                                *)
(***************************************************************************)
statusWorkflow ==
  [s \in RoomStatus |->
     CASE s = "Dirty" -> {"Check-out Inspected", "Cleaning", "Out of Order"}
       [] s = "Check-out Inspected" -> {"Cleaning", "Out of Order"}
       [] s = "Cleaning" -> {"Vacant Clean", "Dirty"}
       [] s = "Vacant Clean" -> {"Vacant Clean Inspected", "Dirty", "Occupied"}
       [] s = "Vacant Clean Inspected" -> {"Occupied", "Dirty"}
       [] s = "Occupied" -> {"Dirty", "Out of Order"}
       [] s = "Out of Order" -> {"Dirty"}]

\* the property names an object literal inherits from Object.prototype
ObjectPrototypeKeys == {"constructor", "toString"}

\* a value that is an array of statuses
ArrayOf(items) == [isArray |-> TRUE, items |-> items]

\* a member of Object.prototype: a function, which is truthy and no array
InheritedMember == [isArray |-> FALSE, items |-> {}]

\* table[key]: an own property, an inherited one, or undefined
Property(table, key) ==
  IF key \in DOMAIN table THEN Some(ArrayOf(table[key]))
  ELSE IF key \in ObjectPrototypeKeys THEN Some(InheritedMember)
  ELSE Null

\* the statuses the modal offers for a room: statusWorkflow[room.status] || []
availableStatuses(status) ==
  LET found == Property(statusWorkflow, status)
  IN IF IsNull(found) THEN ArrayOf({}) ELSE Val(found)

(***************************************************************************)
(* State.                                                                  *)
(***************************************************************************)
VARIABLES
  currentUser,   \* store: the logged-in profile, or Null
  rooms,         \* store: the local registry, room number -> room
  timer,         \* store: the session's task timer
  now,           \* Date.now(), milliseconds
  dbRooms,       \* durable table rooms: room number -> status
  dbAudit,       \* durable table audit_logs, in insertion order
  dbWorkLogs,    \* durable table work_logs; a log's id is its index
  dbInspections, \* durable table inspections, in insertion order
  selectedRoom,  \* supervisor dashboard: the room object of the open inspection
  dbWrites,      \* history: the committed status writes, in order
  last,          \* history: the last handler call and the notifications it emitted
  hist,          \* history of the running task: the time it really ran, and the
                 \* timer as its last pause left it while the clock has not moved on
  pending,       \* the handler call suspended at a repository call, or Null
  notifications, \* store: the notifications, newest first
  noteHist,      \* history: every notification added, newest first
  ticker,        \* the tick source: the module's interval handle and the
                 \* intervals the browser has active
  mounted,       \* the rooms array the subscription callback closed over
  parked,        \* the other actor's session (store) while this one acts
  shown          \* what a dashboard last computed: a query with its rows, or a
                 \* duration with its text; Null before

vars ==
  <<currentUser, rooms, timer, now, dbRooms, dbAudit, dbWorkLogs, dbInspections,
    selectedRoom, dbWrites, last, hist, pending, notifications, noteHist, ticker,
    mounted, parked, shown>>

\* the state around the hook that a step of the hook or of a dashboard leaves alone
envVars == <<pending, notifications, noteHist, ticker, mounted, parked, shown>>

\* what a handler call leaves alone when it returns at once
coreVars == <<currentUser, rooms, timer, now, dbRooms, dbAudit, dbWorkLogs, dbWrites>>

(***************************************************************************)
(* Store: rooms, timer, notifications.                                     *)
(***************************************************************************)
\* a notification as addNotification receives it
Note(title, type) == [title |-> title, type |-> type]

\* {...r, ...updates}: the fields of updates, and the other fields of r
Merge(r, updates) ==
  [f \in DOMAIN r \cup DOMAIN updates |->
     IF f \in DOMAIN updates THEN updates[f] ELSE r[f]]

\* rooms.map(r => r.id === roomId ? {...r, ...updates} : r)
updateRoom(rs, roomId, updates) ==
  [r \in DOMAIN rs |-> IF r = roomId THEN Merge(rs[r], updates) ELSE rs[r]]

\* the first n elements of a list: list.slice(0, n)
Slice(list, n) == SubSeq(list, 1, IF Len(list) < n THEN Len(list) ELSE n)

\* an addNotification that puts the new notification behind the ones it holds
addNotification_oldestFirst(list, notification, id) ==
  Slice(list \o <<[title |-> notification.title, type |-> notification.type,
                   id |-> id, read |-> FALSE]>>, MaxNotifications)

\* addNotification(notification), with the id Math.random() gives it
addNotification(list, notification, id) ==
  Slice(<<[title |-> notification.title, type |-> notification.type,
           id |-> id, read |-> FALSE]>> \o list, MaxNotifications)

markNotificationRead(list, id) ==
  [i \in DOMAIN list |->
     IF list[i].id = id THEN [list[i] EXCEPT !.read = TRUE] ELSE list[i]]

clearNotifications(list) == <<>>

IdleTimer ==
  [isRunning |-> FALSE, startTime |-> Null, elapsedTime |-> 0,
   currentLogId |-> Null, roomNumber |-> Null, taskType |-> Null]

startTimer(logId, roomNumber, taskType, t) ==
  [isRunning |-> TRUE, startTime |-> Some(t), elapsedTime |-> 0,
   currentLogId |-> logId, roomNumber |-> Some(roomNumber), taskType |-> Some(taskType)]

pauseTimer(tm) == [tm EXCEPT !.isRunning = FALSE, !.startTime = Null]

\* a resume that starts the count again from zero
resumeTimer_fromZero(tm, t) ==
  [tm EXCEPT !.isRunning = TRUE, !.startTime = Some(t), !.elapsedTime = 0]

resumeTimer(tm, t) == [tm EXCEPT !.isRunning = TRUE, !.startTime = Some(t)]

stopTimer(tm) ==
  [tm EXCEPT !.isRunning = FALSE, !.startTime = Null, !.currentLogId = Null,
             !.roomNumber = Null, !.taskType = Null]

resetTimer(tm) == IdleTimer

\* !x of a nullable number or id: null and 0 are falsy
Falsy(x) == IsNull(x) \/ Val(x) = 0

\* a tick that keeps only the seconds since the last reading of the clock
tick_sinceLastOnly(tm, t) ==
  IF ~tm.isRunning \/ Falsy(tm.startTime) THEN tm
  ELSE [tm EXCEPT !.elapsedTime = (t - Val(tm.startTime)) \div 1000,
                  !.startTime = Some(t)]

tick(tm, t) ==
  IF ~tm.isRunning \/ Falsy(tm.startTime) THEN tm
  ELSE [tm EXCEPT !.elapsedTime = tm.elapsedTime + ((t - Val(tm.startTime)) \div 1000),
                  !.startTime = Some(t)]

\* clearInterval(handle): the interval is no longer active and never fires
clearInterval(tk, handle) ==
  [tk EXCEPT !.active = @ \ {handle}, !.due = @ \ {handle}]

\* setInterval(callback, 1000): a new active interval, whose handle is returned
setInterval(tk) ==
  [tk EXCEPT !.active = @ \cup {tk.issued + 1}, !.handle = Some(tk.issued + 1),
             !.issued = @ + 1]

\* a startTimerInterval that keeps the interval it already has
startTimerInterval_keepsOld(tk) == setInterval(tk)

startTimerInterval(tk) ==
  setInterval(IF ~IsNull(tk.handle) THEN clearInterval(tk, Val(tk.handle)) ELSE tk)

stopTimerInterval(tk) ==
  IF ~IsNull(tk.handle)
  THEN [clearInterval(tk, Val(tk.handle)) EXCEPT !.handle = Null]
  ELSE tk

(***************************************************************************)
(* Durable store: lib/supabase.                                            *)
(***************************************************************************)
\* update rooms set status where id = roomId
updateRoomStatus(db, roomId, status) ==
  [r \in DOMAIN db |-> IF r = roomId THEN status ELSE db[r]]

\* an insert into audit_logs that puts the new row ahead of the rows it holds
createAuditLog_newestFirst(audit, log) == <<log>> \o audit

\* insert into audit_logs
createAuditLog(audit, log) == Append(audit, log)

\* insert into work_logs; the new row's id is its index
createWorkLog(logs, roomNumber, staffId, taskType) ==
  Append(logs, [room_number |-> roomNumber, staff_id |-> staffId,
                task_type |-> taskType, status |-> "In Progress",
                total_duration |-> Null])

\* update work_logs ... where id = logId: a null id matches no row
UpdateLog(logs, logId, status, duration) ==
  [i \in DOMAIN logs |->
     IF ~IsNull(logId) /\ i = Val(logId)
     THEN [logs[i] EXCEPT !.status = status, !.total_duration = duration]
     ELSE logs[i]]

pauseWorkLog(logs, logId, elapsedSeconds) ==
  UpdateLog(logs, logId, "Paused", Some(elapsedSeconds))

resumeWorkLog(logs, logId) ==
  [i \in DOMAIN logs |->
     IF ~IsNull(logId) /\ i = Val(logId)
     THEN [logs[i] EXCEPT !.status = "In Progress"]
     ELSE logs[i]]

finishWorkLog(logs, logId, totalSeconds) ==
  UpdateLog(logs, logId, "Completed", Some(totalSeconds))

\* insert into inspections
createInspection(inspections, inspection) == Append(inspections, inspection)

\* a filter that is given (truthy) holds of the value
Gte(value, filter) == IsNull(filter) \/ value >= Val(filter)
Lte(value, filter) == IsNull(filter) \/ value <= Val(filter)
Eq(value, filter) == IsNull(filter) \/ value = Val(filter)

\* the row passes the filters of fetchAuditLogs
Matches(log, filters) ==
  /\ Gte(log.timestamp, filters.date_from)
  /\ Lte(log.timestamp, filters.date_to)
  /\ Eq(log.room_number, filters.room_number)
  /\ Eq(log.changed_by, filters.changed_by)

\* the row put into rows that are ordered by timestamp, newest first, behind
\* the rows that are as new
InsertDesc(ordered, row) ==
  LET ahead == Cardinality({i \in DOMAIN ordered : ordered[i].timestamp >= row.timestamp})
  IN SubSeq(ordered, 1, ahead) \o <<row>> \o SubSeq(ordered, ahead + 1, Len(ordered))

\* order('timestamp', { ascending: false })
RECURSIVE OrderDesc(_)
OrderDesc(rows) ==
  IF rows = <<>> THEN <<>>
  ELSE InsertDesc(OrderDesc(SubSeq(rows, 1, Len(rows) - 1)), rows[Len(rows)])

\* a query that returns the rows in the order they were inserted
fetchAuditLogs_insertionOrder(audit, filters) ==
  LET Passes(log) == Matches(log, filters)
  IN SelectSeq(audit, Passes)

\* select * from audit_logs order by timestamp desc, with the filters given
fetchAuditLogs(audit, filters) ==
  LET Passes(log) == Matches(log, filters)
  IN OrderDesc(SelectSeq(audit, Passes))

(***************************************************************************)
(* The useRooms hook.                                                      *)
(***************************************************************************)
\* the room object a caller passes: a snapshot of a registry entry
Snapshot(r) == [id |-> r, room_number |-> r, status |-> rooms[r].status]

\* the part of the state changeRoomStatus works on, with the notifications
\* emitted so far by the running handler
Ctx(notes) ==
  [dbRooms |-> dbRooms, dbAudit |-> dbAudit, rooms |-> rooms,
   dbWrites |-> dbWrites, notes |-> notes]

AuditEntry(room, oldStatus, newStatus) ==
  [room_number |-> room.room_number, changed_by |-> Val(currentUser),
   from_status |-> oldStatus, to_status |-> newStatus]

\* the status patch of changeRoomStatus once it is committed to the durable store
Patched(c, room, newStatus) ==
  [c EXCEPT !.dbRooms = updateRoomStatus(c.dbRooms, room.id, newStatus),
            !.dbWrites = Append(c.dbWrites,
                                [room_number |-> room.room_number,
                                 from |-> c.dbRooms[room.id], to |-> newStatus])]

\* changeRoomStatus with the audit entry appended before the status patch
changeRoomStatus_auditFirst(c, room, newStatus, fail) ==
  IF IsNull(currentUser)
  THEN [c EXCEPT !.notes = Append(c.notes, Note("Authentication required", "error"))]
  ELSE IF fail = "createAuditLog"
  THEN [c EXCEPT !.notes = Append(c.notes, Note("Error updating status", "error"))]
  ELSE IF fail = "updateRoomStatus"
  THEN [c EXCEPT !.dbAudit = createAuditLog(c.dbAudit, AuditEntry(room, room.status, newStatus)),
                 !.notes = Append(c.notes, Note("Error updating status", "error"))]
  ELSE [Patched(c, room, newStatus)
          EXCEPT !.dbAudit = createAuditLog(c.dbAudit, AuditEntry(room, room.status, newStatus)),
                 !.rooms = updateRoom(c.rooms, room.id, [status |-> newStatus]),
                 !.notes = Append(c.notes, Note("Status updated", "success"))]

\* changeRoomStatus(room, newStatus, notes) run on c; it catches its own errors
changeRoomStatus(c, room, newStatus, fail) ==
  IF IsNull(currentUser)
  THEN [c EXCEPT !.notes = Append(c.notes, Note("Authentication required", "error"))]
  ELSE IF fail = "updateRoomStatus"
  THEN [c EXCEPT !.notes = Append(c.notes, Note("Error updating status", "error"))]
  ELSE IF fail = "createAuditLog"
  THEN [Patched(c, room, newStatus)
          EXCEPT !.notes = Append(c.notes, Note("Error updating status", "error"))]
  ELSE [Patched(c, room, newStatus)
          EXCEPT !.dbAudit = createAuditLog(c.dbAudit, AuditEntry(room, room.status, newStatus)),
                 !.rooms = updateRoom(c.rooms, room.id, [status |-> newStatus]),
                 !.notes = Append(c.notes, Note("Status updated", "success"))]

\* the state a run of changeRoomStatus leaves
Commit(c, logs) ==
  /\ dbRooms' = c.dbRooms
  /\ dbAudit' = c.dbAudit
  /\ rooms' = c.rooms
  /\ dbWrites' = c.dbWrites

Called(op, outcome, notes) ==
  last' = [op |-> op, outcome |-> outcome, notes |-> notes]

\* a caller invokes changeRoomStatus(room, newStatus) with the room object it holds
ChangeStatusFor(room, newStatus, fail) ==
  LET c == changeRoomStatus(Ctx(<<>>), room, newStatus, fail)
  IN /\ Commit(c, dbWorkLogs)
     /\ Called("changeRoomStatus", IF c.notes[Len(c.notes)].type = "error" THEN "error" ELSE "ok", c.notes)
     /\ UNCHANGED <<currentUser, timer, now, dbWorkLogs>>

\* a caller invokes changeRoomStatus(room, newStatus) with the registry's room
ChangeStatus(r, newStatus, fail) == ChangeStatusFor(Snapshot(r), newStatus, fail)

\* an implied status that sends an inspected room to Vacant Clean Inspected
startStatus_inspectionInspected(taskType, room) ==
  CASE taskType = "Cleaning" -> "Cleaning"
    [] taskType \in {"Repair", "Maintenance"} -> "Out of Order"
    [] OTHER -> "Vacant Clean Inspected"

\* the status a task type implies at its start
startStatus(taskType, room) ==
  CASE taskType = "Cleaning" -> "Cleaning"
    [] taskType \in {"Repair", "Maintenance"} -> "Out of Order"
    [] OTHER -> room.status

\* startTask(room, taskType)
StartTask(r, taskType, fail) ==
  LET room == Snapshot(r)
      logId == Some(Len(dbWorkLogs) + 1)
      newStatus == startStatus(taskType, room)
      c == IF newStatus # room.status
           THEN changeRoomStatus(Ctx(<<>>), room, newStatus, fail)
           ELSE Ctx(<<>>)
  IN IF IsNull(currentUser)
     THEN /\ Called("startTask", "returned", <<>>)
          /\ UNCHANGED coreVars
     ELSE IF fail = "createWorkLog"
     THEN /\ Called("startTask", "error",
                    <<Note("Error starting task", "error")>>)
          /\ UNCHANGED coreVars
     ELSE /\ dbWorkLogs' = createWorkLog(dbWorkLogs, room.room_number, Val(currentUser), taskType)
          /\ timer' = startTimer(logId, room.room_number, taskType, now)
          /\ Commit(c, dbWorkLogs')
          /\ Called("startTask", "ok",
                    Append(c.notes, Note("Task started", "success")))
          /\ UNCHANGED <<currentUser, now>>

\* a pauseTask that pauses the timer before it calls pauseWorkLog
PauseTask_timerFirst(fail) ==
  IF IsNull(timer.currentLogId)
  THEN /\ Called("pauseTask", "returned", <<>>)
       /\ UNCHANGED coreVars
  ELSE IF fail = "pauseWorkLog"
  THEN /\ timer' = pauseTimer(timer)
       /\ Called("pauseTask", "error", <<Note("Error pausing task", "error")>>)
       /\ UNCHANGED <<currentUser, rooms, now, dbRooms, dbAudit, dbWorkLogs, dbWrites>>
  ELSE /\ dbWorkLogs' = pauseWorkLog(dbWorkLogs, timer.currentLogId, timer.elapsedTime)
       /\ timer' = pauseTimer(timer)
       /\ Called("pauseTask", "ok", <<Note("Task paused", "info")>>)
       /\ UNCHANGED <<currentUser, rooms, now, dbRooms, dbAudit, dbWrites>>

\* pauseTask()
PauseTask(fail) ==
  IF IsNull(timer.currentLogId)
  THEN /\ Called("pauseTask", "returned", <<>>)
       /\ UNCHANGED coreVars
  ELSE IF fail = "pauseWorkLog"
  THEN /\ Called("pauseTask", "error", <<Note("Error pausing task", "error")>>)
       /\ UNCHANGED coreVars
  ELSE /\ dbWorkLogs' = pauseWorkLog(dbWorkLogs, timer.currentLogId, timer.elapsedTime)
       /\ timer' = pauseTimer(timer)
       /\ Called("pauseTask", "ok", <<Note("Task paused", "info")>>)
       /\ UNCHANGED <<currentUser, rooms, now, dbRooms, dbAudit, dbWrites>>

\* resumeTask()
ResumeTask(fail) ==
  IF IsNull(timer.currentLogId)
  THEN /\ Called("resumeTask", "returned", <<>>)
       /\ UNCHANGED coreVars
  ELSE IF fail = "resumeWorkLog"
  THEN /\ Called("resumeTask", "error", <<Note("Error resuming task", "error")>>)
       /\ UNCHANGED coreVars
  ELSE /\ dbWorkLogs' = resumeWorkLog(dbWorkLogs, timer.currentLogId)
       /\ timer' = resumeTimer(timer, now)
       /\ Called("resumeTask", "ok", <<Note("Task resumed", "info")>>)
       /\ UNCHANGED <<currentUser, rooms, now, dbRooms, dbAudit, dbWrites>>

\* a resolution by the task type alone, whatever status the caller supplies
finalStatus_explicitIgnored(nextStatus, taskType, room) ==
  CASE taskType = Some("Cleaning") -> "Vacant Clean"
    [] taskType = Some("Inspection") -> "Vacant Clean Inspected"
    [] taskType \in {Some("Repair"), Some("Maintenance")} -> "Dirty"
    [] OTHER -> room.status

\* a resolution that sends a finished cleaning back to Dirty
finalStatus_cleaningToDirty(nextStatus, taskType, room) ==
  IF ~IsNull(nextStatus) THEN Val(nextStatus)
  ELSE CASE taskType = Some("Inspection") -> "Vacant Clean Inspected"
         [] taskType \in {Some("Cleaning"), Some("Repair"), Some("Maintenance")} -> "Dirty"
         [] OTHER -> room.status

\* the status finishTask resolves: nextStatus if given, else by the task type
finalStatus(nextStatus, taskType, room) ==
  IF ~IsNull(nextStatus) THEN Val(nextStatus)
  ELSE CASE taskType = Some("Cleaning") -> "Vacant Clean"
         [] taskType = Some("Inspection") -> "Vacant Clean Inspected"
         [] taskType \in {Some("Repair"), Some("Maintenance")} -> "Dirty"
         [] OTHER -> room.status

\* the guard of finishTask without its test of timer.currentLogId
finishTaskReturns_userOnly == IsNull(currentUser)

\* the guard of finishTask without its test of currentUser
finishTaskReturns_timerOnly == IsNull(timer.currentLogId)

\* the guard that opens finishTask: if (!timer.currentLogId || !currentUser) return
finishTaskReturns == IsNull(timer.currentLogId) \/ IsNull(currentUser)

\* a finishTask that completes the work log and leaves the timer as it is
FinishTaskFor_timerKept(room, nextStatus, fail) ==
  LET final == finalStatus(nextStatus, timer.taskType, room)
      c == IF final # room.status
           THEN changeRoomStatus(Ctx(<<>>), room, final, fail)
           ELSE Ctx(<<>>)
  IN IF finishTaskReturns
     THEN /\ Called("finishTask", "returned", <<>>)
          /\ UNCHANGED coreVars
     ELSE IF fail = "finishWorkLog"
     THEN /\ Called("finishTask", "error",
                    <<Note("Error completing task", "error")>>)
          /\ UNCHANGED coreVars
     ELSE /\ dbWorkLogs' = finishWorkLog(dbWorkLogs, timer.currentLogId, timer.elapsedTime)
          /\ Commit(c, dbWorkLogs')
          /\ Called("finishTask", "ok",
                    Append(c.notes, Note("Task completed", "success")))
          /\ UNCHANGED <<currentUser, now, timer>>

\* finishTask(room, nextStatus?) for the room object the caller holds
FinishTaskFor(room, nextStatus, fail) ==
  LET final == finalStatus(nextStatus, timer.taskType, room)
      c == IF final # room.status
           THEN changeRoomStatus(Ctx(<<>>), room, final, fail)
           ELSE Ctx(<<>>)
  IN IF finishTaskReturns
     THEN /\ Called("finishTask", "returned", <<>>)
          /\ UNCHANGED coreVars
     ELSE IF fail = "finishWorkLog"
     THEN /\ Called("finishTask", "error",
                    <<Note("Error completing task", "error")>>)
          /\ UNCHANGED coreVars
     ELSE /\ dbWorkLogs' = finishWorkLog(dbWorkLogs, timer.currentLogId, timer.elapsedTime)
          /\ Commit(c, dbWorkLogs')
          /\ timer' = resetTimer(stopTimer(timer))
          /\ Called("finishTask", "ok",
                    Append(c.notes, Note("Task completed", "success")))
          /\ UNCHANGED <<currentUser, now>>

\* finishTask(room, nextStatus?) with the room as the registry holds it
FinishTask(r, nextStatus, fail) == FinishTaskFor(Snapshot(r), nextStatus, fail)

(***************************************************************************)
(* formatDuration.  A text is the sequence of its characters.              *)
(***************************************************************************)
DigitChars == <<"0", "1", "2", "3", "4", "5", "6", "7", "8", "9">>

\* n.toString() of an integer n >= 0: its decimal digits, no leading zero
RECURSIVE toString(_)
toString(n) ==
  IF n < 10 THEN <<DigitChars[n + 1]>>
  ELSE toString(n \div 10) \o <<DigitChars[(n % 10) + 1]>>

\* text.padStart(targetLength, fill) with a fill of one character
RECURSIVE padStart(_, _, _)
padStart(text, targetLength, fill) ==
  IF Len(text) >= targetLength THEN text
  ELSE padStart(<<fill>> \o text, targetLength, fill)

\* a formatDuration whose minutes are not taken within the hour
formatDuration_minutesOfTask(seconds) ==
  LET hours == seconds \div 3600
      minutes == seconds \div 60
      secs == seconds % 60
  IN padStart(toString(hours), 2, "0") \o <<":">> \o
     padStart(toString(minutes), 2, "0") \o <<":">> \o
     padStart(toString(secs), 2, "0")

\* formatDuration(seconds) for an integer seconds >= 0
formatDuration(seconds) ==
  LET hours == seconds \div 3600
      minutes == (seconds % 3600) \div 60
      secs == seconds % 60
  IN padStart(toString(hours), 2, "0") \o <<":">> \o
     padStart(toString(minutes), 2, "0") \o <<":">> \o
     padStart(toString(secs), 2, "0")

(***************************************************************************)
(* The specifications.                                                     *)
(***************************************************************************)
\* no task has run yet
NoHistory == [runMs |-> 0, paused |-> Null, roundTrip |-> FALSE]

\* no interval is set
NoTicker == [handle |-> Null, active |-> {}, due |-> {}, issued |-> 0]

\* the registry before the rooms are loaded: rooms: []
NoRooms == <<>>

\* the state around the hook when the session starts
EnvInit ==
  /\ pending = Null
  /\ notifications = <<>>
  /\ noteHist = <<>>
  /\ ticker = NoTicker
  /\ mounted = NoRooms
  /\ parked = Null
  /\ shown = Null

\* the rooms as provisioned
InitialStatus == [r \in RoomNumbers |-> IF r = "A101" THEN "Dirty" ELSE "Out of Order"]

Init ==
  /\ currentUser \in {Null} \cup {Some(p) : p \in Profiles}
  /\ dbRooms = InitialStatus
  /\ rooms = [r \in RoomNumbers |-> [status |-> dbRooms[r], assigned_to |-> Null]]
  /\ timer = IdleTimer
  /\ now = TickIntervalMs
  /\ dbAudit = <<>>
  /\ dbWorkLogs = <<>>
  /\ dbInspections = <<>>
  /\ selectedRoom = Null
  /\ dbWrites = <<>>
  /\ last = [op |-> "none", outcome |-> "ok", notes |-> <<>>]
  /\ hist = NoHistory
  /\ EnvInit

\* the step stays within n rows of the durable store
Within(n) == Len(dbWrites') + Len(dbWorkLogs') <= n

\* a step of the hook alone: no inspection is recorded and no history is kept
HookOnly(n) == Within(n) /\ UNCHANGED <<dbInspections, selectedRoom, hist, envVars>>

\* the explicit next status of finishTask: absent, or any status
NextStatus == {Null} \cup {Some(s) : s \in RoomStatus}

\* the repository calls of a status change
StatusFailures == {NoFailure, "updateRoomStatus", "createAuditLog"}

Next ==
  \/ \E s \in RoomStatus, f \in StatusFailures :
        ChangeStatus("A101", s, f) /\ HookOnly(MaxRows)
  \/ \E t \in TaskType, f \in StatusFailures \cup {"createWorkLog"} :
        StartTask("A101", t, f) /\ HookOnly(MaxRows)
  \/ \E f \in {NoFailure, "pauseWorkLog"} : PauseTask(f) /\ HookOnly(MaxRows)
  \/ \E f \in {NoFailure, "resumeWorkLog"} : ResumeTask(f) /\ HookOnly(MaxRows)
  \/ \E s \in NextStatus, f \in StatusFailures \cup {"finishWorkLog"} :
        FinishTask("A101", s, f) /\ HookOnly(MaxRows)

Spec == Init /\ [][Next]_vars

NextRooms ==
  \/ \E r \in RoomNumbers, s \in RoomStatus :
        ChangeStatus(r, s, NoFailure) /\ HookOnly(MaxRows)
  \/ \E r \in RoomNumbers, t \in TaskType :
        StartTask(r, t, NoFailure) /\ HookOnly(MaxRows)
  \/ PauseTask(NoFailure) /\ HookOnly(MaxRows)
  \/ ResumeTask(NoFailure) /\ HookOnly(MaxRows)
  \/ \E r \in RoomNumbers, s \in NextStatus :
        FinishTask(r, s, NoFailure) /\ HookOnly(MaxRows)

SpecRooms == Init /\ [][NextRooms]_vars

(***************************************************************************)
(* SpecTimer: one session's timer under a moving clock.  The handlers are  *)
(* called for room A101 and no repository call throws; the interval calls  *)
(* tick at whatever reading the clock has; the store's stopTimer and       *)
(* resetTimer may be called on their own.                                  *)
(***************************************************************************)
\* how far the clock moves between two calls, in milliseconds
ClockSteps == {999, TickIntervalMs, 1500}

\* Date.now() moves on by d; a Running timer has really run d more
Advance(d) ==
  /\ now + d <= MaxClockMs
  /\ now' = now + d
  /\ hist' = IF timer.isRunning
             THEN [runMs |-> hist.runMs + d, paused |-> Null, roundTrip |-> FALSE]
             ELSE hist
  /\ Called("clock", "ok", <<>>)
  /\ UNCHANGED <<currentUser, rooms, timer, dbRooms, dbAudit, dbWorkLogs,
                 dbInspections, selectedRoom, dbWrites, envVars>>

\* the interval fires: useAppStore.getState().tick()
Tick ==
  /\ timer' = tick(timer, now)
  /\ Called("tick", "ok", <<>>)
  /\ UNCHANGED <<currentUser, rooms, now, dbRooms, dbAudit, dbWorkLogs,
                 dbInspections, selectedRoom, dbWrites, hist, envVars>>

\* the store's stopTimer()
StopTimer ==
  /\ timer' = stopTimer(timer)
  /\ Called("stopTimer", "ok", <<>>)
  /\ hist' = NoHistory
  /\ UNCHANGED <<currentUser, rooms, now, dbRooms, dbAudit, dbWorkLogs,
                 dbInspections, selectedRoom, dbWrites, envVars>>

\* the store's resetTimer()
ResetTimer ==
  /\ timer' = resetTimer(timer)
  /\ Called("resetTimer", "ok", <<>>)
  /\ hist' = NoHistory
  /\ UNCHANGED <<currentUser, rooms, now, dbRooms, dbAudit, dbWorkLogs,
                 dbInspections, selectedRoom, dbWrites, envVars>>

\* startTask, and the history of the task it starts
TimedStart(taskType) ==
  /\ StartTask("A101", taskType, NoFailure)
  /\ Within(MaxRows)
  /\ hist' = IF last'.outcome = "ok" THEN NoHistory ELSE hist
  /\ UNCHANGED <<dbInspections, selectedRoom, envVars>>

\* pauseTask; a pause of a Running timer is remembered until the clock moves on
\* under a Running timer, and a round trip is a pause, a resume and this pause
TimedPause ==
  /\ PauseTask(NoFailure)
  /\ Within(MaxRows)
  /\ hist' = IF last'.outcome = "ok" /\ timer.isRunning
             THEN [hist EXCEPT !.paused = Some(IF IsNull(hist.paused)
                                              THEN timer' ELSE Val(hist.paused)),
                               !.roundTrip = ~IsNull(hist.paused)]
             ELSE hist
  /\ UNCHANGED <<dbInspections, selectedRoom, envVars>>

\* resumeTask
TimedResume ==
  /\ ResumeTask(NoFailure)
  /\ Within(MaxRows)
  /\ UNCHANGED <<dbInspections, selectedRoom, hist, envVars>>

\* finishTask
TimedFinish(nextStatus) ==
  /\ FinishTask("A101", nextStatus, NoFailure)
  /\ Within(MaxRows)
  /\ hist' = IF last'.outcome = "ok" THEN NoHistory ELSE hist
  /\ UNCHANGED <<dbInspections, selectedRoom, envVars>>

NextTimer ==
  \/ \E d \in ClockSteps : Advance(d)
  \/ Tick
  \/ StopTimer
  \/ ResetTimer
  \/ \E t \in TaskType : TimedStart(t)
  \/ TimedPause
  \/ TimedResume
  \/ \E s \in NextStatus : TimedFinish(s)

SpecTimer == Init /\ [][NextTimer]_vars

(***************************************************************************)
(* SpecFlows: the handlers as the dashboards call them, for room A101,     *)
(* found Dirty or Vacant Clean: quick start and quick finish of a cleaning,*)
(* pause and resume, start and submission of an inspection.  Of the        *)
(* repository calls only createInspection may throw.                       *)
(***************************************************************************)
\* the status an inspection with this score asks for
statusAfter_abovePass(score) ==
  IF score > InspectionPassScore THEN "Vacant Clean Inspected" ELSE "Dirty"

\* inspectionScore >= 80 ? 'Vacant Clean Inspected' : 'Dirty'
statusAfter(score) ==
  IF score >= InspectionPassScore THEN "Vacant Clean Inspected" ELSE "Dirty"

\* the step stays within the rows of the flows, inspections included
WithinFlow == Len(dbWrites') + Len(dbWorkLogs') + Len(dbInspections') <= MaxFlowRows

\* the hook's part of a dashboard step
FlowOnly == UNCHANGED <<dbInspections, selectedRoom, hist, envVars>> /\ WithinFlow

\* handleQuickStart(room)
HandleQuickStart(r) == StartTask(r, "Cleaning", NoFailure) /\ FlowOnly

\* handleQuickFinish(room)
HandleQuickFinish(r) == FinishTask(r, Null, NoFailure) /\ FlowOnly

\* handleStartInspection(room)
HandleStartInspection(r) ==
  /\ selectedRoom' = Some(Snapshot(r))
  /\ StartTask(r, "Inspection", NoFailure)
  /\ UNCHANGED <<dbInspections, hist, envVars>>
  /\ WithinFlow

\* handleSubmitInspection()
HandleSubmitInspection(score, fail) ==
  IF IsNull(selectedRoom) \/ IsNull(currentUser)
  THEN /\ Called("submitInspection", "returned", <<>>)
       /\ UNCHANGED <<coreVars, dbInspections, selectedRoom, hist, envVars>>
  ELSE IF fail = "createInspection"
  THEN /\ Called("submitInspection", "error", <<>>)
       /\ UNCHANGED <<coreVars, dbInspections, selectedRoom, hist, envVars>>
  ELSE /\ dbInspections' =
            createInspection(dbInspections,
                             [room_number |-> Val(selectedRoom).room_number,
                              inspector_id |-> Val(currentUser),
                              score |-> score,
                              status_after |-> statusAfter(score)])
       /\ FinishTaskFor(Val(selectedRoom), Some(statusAfter(score)), NoFailure)
       /\ WithinFlow
       /\ UNCHANGED <<selectedRoom, hist, envVars>>

\* the room as the session finds it
FoundStatus == {"Dirty", "Vacant Clean"}

InitFlows ==
  /\ currentUser \in {Null} \cup {Some(p) : p \in Profiles}
  /\ dbRooms \in [RoomNumbers -> RoomStatus]
  /\ dbRooms["A101"] \in FoundStatus
  /\ dbRooms["B203"] = InitialStatus["B203"]
  /\ rooms = [r \in RoomNumbers |-> [status |-> dbRooms[r], assigned_to |-> Null]]
  /\ timer = IdleTimer
  /\ now = TickIntervalMs
  /\ dbAudit = <<>>
  /\ dbWorkLogs = <<>>
  /\ dbInspections = <<>>
  /\ selectedRoom = Null
  /\ dbWrites = <<>>
  /\ last = [op |-> "none", outcome |-> "ok", notes |-> <<>>]
  /\ hist = NoHistory
  /\ EnvInit

NextFlows ==
  \/ HandleQuickStart("A101")
  \/ HandleQuickFinish("A101")
  \/ PauseTask(NoFailure) /\ FlowOnly
  \/ ResumeTask(NoFailure) /\ FlowOnly
  \/ HandleStartInspection("A101")
  \/ \E sc \in Scores, f \in {NoFailure, "createInspection"} :
        HandleSubmitInspection(sc, f)

SpecFlows == InitFlows /\ [][NextFlows]_vars

(***************************************************************************)
(* SpecAwait: changeRoomStatus, startTask and finishTask taken one await   *)
(* at a time, for room A101 and with no repository call throwing.  A call  *)
(* is suspended at the repository call named by pending.at; the step that  *)
(* resumes it commits that call's write and runs the handler up to its     *)
(* next await or to its end.  One call is in flight at a time; pauseTask   *)
(* and resumeTask run between calls.                                       *)
(***************************************************************************)
\* what a reader of the store and of the durable store can see
Visible ==
  [rooms |-> rooms, timer |-> timer, dbRooms |-> dbRooms, dbAudit |-> dbAudit,
   dbWorkLogs |-> dbWorkLogs]

\* a call suspended at its repository call `at`
Suspended(op, at, room, status, before) ==
  Some([op |-> op, at |-> at, room |-> room, status |-> status, before |-> before])

AwaitFrame == UNCHANGED <<currentUser, now, dbInspections, selectedRoom, hist,
                          notifications, noteHist, ticker, mounted, parked, shown>>

\* changeRoomStatus(room, newStatus) up to await updateRoomStatus(...)
CallChangeStatus(r, newStatus) ==
  /\ IsNull(pending)
  /\ IF IsNull(currentUser)
     THEN /\ Called("changeRoomStatus", "error",
                    <<Note("Authentication required", "error")>>)
          /\ UNCHANGED pending
     ELSE /\ pending' = Suspended("changeRoomStatus", "updateRoomStatus",
                                  Snapshot(r), newStatus, Visible)
          /\ UNCHANGED last
  /\ UNCHANGED <<rooms, timer, dbRooms, dbAudit, dbWorkLogs, dbWrites>>
  /\ AwaitFrame

\* startTask(room, taskType) up to await createWorkLog(...)
CallStartTask(r, taskType) ==
  /\ IsNull(pending)
  /\ IF IsNull(currentUser)
     THEN /\ Called("startTask", "returned", <<>>)
          /\ UNCHANGED pending
     ELSE /\ pending' = Suspended("startTask", "createWorkLog",
                                  Snapshot(r), taskType, Visible)
          /\ UNCHANGED last
  /\ UNCHANGED <<rooms, timer, dbRooms, dbAudit, dbWorkLogs, dbWrites>>
  /\ AwaitFrame

\* finishTask(room, nextStatus?) up to await finishWorkLog(...)
CallFinishTask(r, nextStatus) ==
  /\ IsNull(pending)
  /\ IF finishTaskReturns
     THEN /\ Called("finishTask", "returned", <<>>)
          /\ UNCHANGED pending
     ELSE /\ pending' = Suspended("finishTask", "finishWorkLog",
                                  Snapshot(r), nextStatus, Visible)
          /\ UNCHANGED last
  /\ UNCHANGED <<rooms, timer, dbRooms, dbAudit, dbWorkLogs, dbWrites>>
  /\ AwaitFrame

\* the end of the suspended call: its last notification, and for finishTask
\* stopTimer(); resetTimer()
Returns(p, tm, notes) ==
  /\ pending' = Null
  /\ timer' = IF p.op = "finishTask" THEN resetTimer(stopTimer(tm)) ELSE tm
  /\ Called(p.op, "ok",
            CASE p.op = "startTask" -> Append(notes, Note("Task started", "success"))
              [] p.op = "finishTask" -> Append(notes, Note("Task completed", "success"))
              [] OTHER -> notes)

\* the handler enters changeRoomStatus(room, status): up to await updateRoomStatus
EntersChangeStatus(p, status) ==
  /\ pending' = Some([p EXCEPT !.at = "updateRoomStatus", !.status = status])
  /\ UNCHANGED last

\* createWorkLog resolves: startTimer, then the implied status change if any
ResumeAfterCreateWorkLog ==
  /\ ~IsNull(pending)
  /\ Val(pending).at = "createWorkLog"
  /\ LET p == Val(pending)
         newStatus == startStatus(p.status, p.room)
         started == startTimer(Some(Len(dbWorkLogs) + 1), p.room.room_number,
                               p.status, now)
     IN /\ dbWorkLogs' = createWorkLog(dbWorkLogs, p.room.room_number,
                                       Val(currentUser), p.status)
        /\ IF newStatus # p.room.status
           THEN EntersChangeStatus(p, newStatus) /\ timer' = started
           ELSE Returns(p, started, <<>>)
  /\ UNCHANGED <<rooms, dbRooms, dbAudit, dbWrites>>
  /\ Within(MaxRows)
  /\ AwaitFrame

\* finishWorkLog resolves: the status is resolved and changed if it differs
ResumeAfterFinishWorkLog ==
  /\ ~IsNull(pending)
  /\ Val(pending).at = "finishWorkLog"
  /\ LET p == Val(pending)
         final == finalStatus(p.status, timer.taskType, p.room)
     IN /\ dbWorkLogs' = finishWorkLog(dbWorkLogs, timer.currentLogId, timer.elapsedTime)
        /\ IF final # p.room.status
           THEN EntersChangeStatus(p, final) /\ UNCHANGED timer
           ELSE Returns(p, timer, <<>>)
  /\ UNCHANGED <<rooms, dbRooms, dbAudit, dbWrites>>
  /\ AwaitFrame

\* updateRoomStatus resolves: the status is committed; up to await createAuditLog
ResumeAfterUpdateRoomStatus ==
  /\ ~IsNull(pending)
  /\ Val(pending).at = "updateRoomStatus"
  /\ LET p == Val(pending)
         c == Patched(Ctx(<<>>), p.room, p.status)
     IN /\ dbRooms' = c.dbRooms
        /\ dbWrites' = c.dbWrites
        /\ pending' = Some([p EXCEPT !.at = "createAuditLog"])
  /\ UNCHANGED <<rooms, timer, dbAudit, dbWorkLogs, last>>
  /\ Within(MaxRows)
  /\ AwaitFrame

\* createAuditLog resolves: the registry is updated and the handler runs to its end
ResumeAfterCreateAuditLog ==
  /\ ~IsNull(pending)
  /\ Val(pending).at = "createAuditLog"
  /\ LET p == Val(pending)
     IN /\ dbAudit' = createAuditLog(dbAudit, AuditEntry(p.room, p.room.status, p.status))
        /\ rooms' = updateRoom(rooms, p.room.id, [status |-> p.status])
        /\ Returns(p, timer, <<Note("Status updated", "success")>>)
  /\ UNCHANGED <<dbRooms, dbWorkLogs, dbWrites>>
  /\ AwaitFrame

\* pauseTask or resumeTask between two calls
BetweenCalls ==
  /\ IsNull(pending)
  /\ PauseTask(NoFailure) \/ ResumeTask(NoFailure)
  /\ HookOnly(MaxRows)

NextAwait ==
  \/ \E s \in RoomStatus : CallChangeStatus("A101", s)
  \/ \E t \in TaskType : CallStartTask("A101", t)
  \/ \E s \in NextStatus : CallFinishTask("A101", s)
  \/ ResumeAfterCreateWorkLog
  \/ ResumeAfterFinishWorkLog
  \/ ResumeAfterUpdateRoomStatus
  \/ ResumeAfterCreateAuditLog
  \/ BetweenCalls

SpecAwait == Init /\ [][NextAwait]_vars

(***************************************************************************)
(* SpecNotes: the store's notification list under addNotification,         *)
(* markNotificationRead and clearNotifications.  An id is fresh (the       *)
(* number of the notification) or, as the generator is random, one it      *)
(* issued before.                                                          *)
(***************************************************************************)
\* what callers add
NotePayloads == {Note("Status updated", "success")}

\* the id that may be issued again
RepeatedId == 1

\* the ids callers mark read: two that are issued and one that never is
MarkIds == {1, 2, 0}

\* the entries of the history that carry an id issued before them
Repeats == Cardinality({i \in DOMAIN noteHist : noteHist[i].id = RepeatedId}) - 1

\* the ids the generator may give the next notification
NewIds ==
  {Len(noteHist) + 1}
    \cup (IF noteHist # <<>> /\ Repeats < MaxRepeats THEN {RepeatedId} ELSE {})

NotesFrame ==
  UNCHANGED <<coreVars, dbInspections, selectedRoom, hist, pending, ticker,
              mounted, parked, shown>>

AddNotification(notification, id) ==
  /\ Len(noteHist) < MaxAdded
  /\ notifications' = addNotification(notifications, notification, id)
  /\ noteHist' = <<[title |-> notification.title, type |-> notification.type,
                    id |-> id]>> \o noteHist
  /\ Called("addNotification", "ok", <<>>)
  /\ NotesFrame

MarkNotificationRead(id) ==
  /\ notifications' = markNotificationRead(notifications, id)
  /\ Called("markNotificationRead", "ok", <<>>)
  /\ UNCHANGED noteHist
  /\ NotesFrame

ClearNotifications ==
  /\ notifications' = clearNotifications(notifications)
  /\ noteHist' = <<>>
  /\ Called("clearNotifications", "ok", <<>>)
  /\ NotesFrame

NextNotes ==
  \/ \E n \in NotePayloads : \E id \in NewIds : AddNotification(n, id)
  \/ \E id \in MarkIds : MarkNotificationRead(id)
  \/ ClearNotifications

SpecNotes == Init /\ [][NextNotes]_vars

(***************************************************************************)
(* SpecTicker: the module-level interval that calls tick() every second,   *)
(* started and stopped by the components' effects, next to a task whose    *)
(* timer it advances.  After a period every active interval is due once.   *)
(***************************************************************************)
TickerFrame ==
  UNCHANGED <<currentUser, rooms, dbRooms, dbAudit, dbWorkLogs, dbWrites,
              dbInspections, selectedRoom, hist, pending, notifications,
              noteHist, mounted, parked, shown>>

StartTimerInterval ==
  /\ ticker.issued < MaxIntervals
  /\ ticker' = startTimerInterval(ticker)
  /\ Called("startTimerInterval", "ok", <<>>)
  /\ UNCHANGED <<timer, now>>
  /\ TickerFrame

StopTimerInterval ==
  /\ ticker' = stopTimerInterval(ticker)
  /\ Called("stopTimerInterval", "ok", <<>>)
  /\ UNCHANGED <<timer, now>>
  /\ TickerFrame

\* a period of the intervals goes by
PeriodElapses ==
  /\ now + TickIntervalMs <= MaxClockMs
  /\ now' = now + TickIntervalMs
  /\ ticker' = [ticker EXCEPT !.due = ticker.active]
  /\ Called("clock", "ok", <<>>)
  /\ UNCHANGED timer
  /\ TickerFrame

\* the callback of a due interval runs: useAppStore.getState().tick()
IntervalFires(i) ==
  /\ i \in ticker.due
  /\ timer' = tick(timer, now)
  /\ ticker' = [ticker EXCEPT !.due = @ \ {i}]
  /\ Called("tick", "ok", <<>>)
  /\ UNCHANGED now
  /\ TickerFrame

NextTicker ==
  \/ StartTimerInterval
  \/ StopTimerInterval
  \/ PeriodElapses
  \/ \E i \in ticker.due : IntervalFires(i)
  \/ \E t \in TaskType : StartTask("A101", t, NoFailure) /\ HookOnly(MaxRows)

SpecTicker == Init /\ [][NextTicker]_vars

(***************************************************************************)
(* SpecModal: the room modal.  A click on a room opens the modal on the    *)
(* room object clicked; the modal offers statusWorkflow[room.status] || [] *)
(* and a click on an offered status calls changeRoomStatus.  Room A101 is  *)
(* loaded with whatever status its row holds.                              *)
(***************************************************************************)
\* the status a loaded row may hold: the seven, or a string that is none
LoadedStatuses == RoomStatus \cup {"Maintenance"} \cup ObjectPrototypeKeys

InitModal ==
  /\ currentUser \in {Null} \cup {Some(p) : p \in Profiles}
  /\ \E s \in LoadedStatuses : dbRooms = [InitialStatus EXCEPT !["A101"] = s]
  /\ rooms = [r \in RoomNumbers |-> [status |-> dbRooms[r], assigned_to |-> Null]]
  /\ timer = IdleTimer
  /\ now = TickIntervalMs
  /\ dbAudit = <<>>
  /\ dbWorkLogs = <<>>
  /\ dbInspections = <<>>
  /\ selectedRoom = Null
  /\ dbWrites = <<>>
  /\ last = [op |-> "none", outcome |-> "ok", notes |-> <<>>]
  /\ hist = NoHistory
  /\ EnvInit

\* handleRoomClick(room): setSelectedRoom(room)
HandleRoomClick(r) ==
  /\ selectedRoom' = Some(Snapshot(r))
  /\ Called("handleRoomClick", "ok", <<>>)
  /\ UNCHANGED <<coreVars, dbInspections, hist, envVars>>

\* onClose: setSelectedRoom(null)
CloseModal ==
  /\ selectedRoom' = Null
  /\ Called("onClose", "ok", <<>>)
  /\ UNCHANGED <<coreVars, dbInspections, hist, envVars>>

\* handleStatusChange(newStatus), from the button of an offered status
HandleStatusChange(newStatus) ==
  /\ ~IsNull(selectedRoom)
  /\ availableStatuses(Val(selectedRoom).status).isArray
  /\ newStatus \in availableStatuses(Val(selectedRoom).status).items
  /\ ChangeStatusFor(Val(selectedRoom), newStatus, NoFailure)
  /\ HookOnly(MaxRows)

NextModal ==
  \/ \E r \in RoomNumbers : HandleRoomClick(r)
  \/ CloseModal
  \/ \E s \in RoomStatus : HandleStatusChange(s)

SpecModal == InitModal /\ [][NextModal]_vars

(***************************************************************************)
(* SpecStore: the store's updateRoom(roomId, updates) called on its own,   *)
(* with the id of a room of the registry or of none.                       *)
(***************************************************************************)
\* an id no room of the registry has
UnknownRoom == "Z999"

\* the patches callers pass: a status, an assignee, or both
Patches ==
  {[status |-> s] : s \in {"Dirty", "Cleaning", "Vacant Clean"}}
    \cup {[assigned_to |-> Some(p)] : p \in Profiles}
    \cup {[status |-> "Occupied", assigned_to |-> Null]}

\* updateRoom(roomId, updates); it returns nothing and never throws
UpdateRoom(roomId, updates) ==
  /\ rooms' = updateRoom(rooms, roomId, updates)
  /\ Called("updateRoom", "ok", <<>>)
  /\ UNCHANGED <<currentUser, timer, now, dbRooms, dbAudit, dbWorkLogs, dbWrites,
                 dbInspections, selectedRoom, hist, envVars>>

NextStore ==
  \E roomId \in RoomNumbers \cup {UnknownRoom}, updates \in Patches :
    UpdateRoom(roomId, updates)

SpecStore == Init /\ [][NextStore]_vars

(***************************************************************************)
(* SpecPush: the hook's subscription to the rooms table.  Its effect runs  *)
(* once per mount (dependencies []), so its callback keeps the `rooms` of  *)
(* the render that mounted it.  Other clients insert and update rows, and  *)
(* the events reach the callback; this client loads the rooms.             *)
(***************************************************************************)
\* rooms other clients add
NewRooms == {"C305"}

\* the statuses other clients write
PushedStatuses == {"Dirty", "Occupied"}

\* a row of the rooms table as the registry holds it
Row(status) == [status |-> status, assigned_to |-> Null]

\* setRooms(rooms)
setRooms(rs) == rs

\* [...rooms, room]
WithRoom(rs, roomId, room) == (roomId :> room) @@ rs

\* the store starts with rooms: []
InitPush ==
  /\ currentUser \in {Some(p) : p \in Profiles}
  /\ dbRooms = InitialStatus
  /\ rooms = NoRooms
  /\ timer = IdleTimer
  /\ now = TickIntervalMs
  /\ dbAudit = <<>>
  /\ dbWorkLogs = <<>>
  /\ dbInspections = <<>>
  /\ selectedRoom = Null
  /\ dbWrites = <<>>
  /\ last = [op |-> "none", outcome |-> "ok", notes |-> <<>>]
  /\ hist = NoHistory
  /\ EnvInit

PushFrame ==
  UNCHANGED <<currentUser, timer, now, dbAudit, dbWorkLogs, dbWrites,
              dbInspections, selectedRoom, hist, pending, notifications,
              noteHist, ticker, parked, shown>>

\* loadRooms(): setRooms(await fetchRooms())
LoadRooms ==
  /\ rooms' = setRooms([r \in DOMAIN dbRooms |-> Row(dbRooms[r])])
  /\ Called("loadRooms", "ok", <<>>)
  /\ UNCHANGED <<dbRooms, mounted>>
  /\ PushFrame

\* a component that uses the hook mounts: the effect subscribes with a callback
\* that closes over the rooms of this render
Mount ==
  /\ mounted' = rooms
  /\ Called("mount", "ok", <<>>)
  /\ UNCHANGED <<rooms, dbRooms>>
  /\ PushFrame

\* another client inserts a room; the callback handles the INSERT event:
\* setRooms([...rooms, payload.new]) with the rooms it closed over
PushedInsert(roomId, status) ==
  /\ roomId \notin DOMAIN dbRooms
  /\ dbRooms' = (roomId :> status) @@ dbRooms
  /\ rooms' = setRooms(WithRoom(mounted, roomId, Row(status)))
  /\ Called("INSERT", "ok", <<>>)
  /\ UNCHANGED mounted
  /\ PushFrame

\* another client updates a room; the callback handles the UPDATE event:
\* updateRoom(payload.new.id, payload.new)
PushedUpdate(roomId, status) ==
  /\ roomId \in DOMAIN dbRooms
  /\ dbRooms' = updateRoomStatus(dbRooms, roomId, status)
  /\ rooms' = updateRoom(rooms, roomId, Row(status))
  /\ Called("UPDATE", "ok", <<>>)
  /\ UNCHANGED mounted
  /\ PushFrame

NextPush ==
  \/ LoadRooms
  \/ Mount
  \/ \E r \in NewRooms, s \in PushedStatuses : PushedInsert(r, s)
  \/ \E r \in RoomNumbers \cup NewRooms, s \in PushedStatuses : PushedUpdate(r, s)

SpecPush == InitPush /\ [][NextPush]_vars

(***************************************************************************)
(* SpecActors: two actors, each with a session of their own: a store with  *)
(* its user, its timer and its registry.  The sessions share the durable   *)
(* store and the clock.  The variables of the hook are the session that    *)
(* acts, `parked` is the other one; the UPDATE events of a status change   *)
(* reach the other session's subscription.  Both actors work on room A101. *)
(***************************************************************************)
\* the profile of the second actor
OtherProfile == "sv1"

\* a session: what its store holds
Session(user, tm, rs) == [currentUser |-> user, timer |-> tm, rooms |-> rs]

\* a subscription callback that also drops the timer of a room that changed
OnRoomsPushed_dropsTimer(session, before, after) ==
  [session EXCEPT
     !.rooms = [r \in DOMAIN @ |->
                  IF after[r] # before[r] THEN Merge(@[r], Row(after[r])) ELSE @[r]],
     !.timer = IF \E r \in DOMAIN after : after[r] # before[r] THEN IdleTimer ELSE @]

\* the session's subscription callback run on the UPDATE event of every row
\* that changed: updateRoom(payload.new.id, payload.new)
OnRoomsPushed(session, before, after) ==
  [session EXCEPT
     !.rooms = [r \in DOMAIN @ |->
                  IF after[r] # before[r] THEN Merge(@[r], Row(after[r])) ELSE @[r]]]

InitActors ==
  /\ currentUser \in {Some(p) : p \in Profiles}
  /\ dbRooms = InitialStatus
  /\ rooms = [r \in RoomNumbers |-> Row(dbRooms[r])]
  /\ timer = IdleTimer
  /\ now = TickIntervalMs
  /\ dbAudit = <<>>
  /\ dbWorkLogs = <<>>
  /\ dbInspections = <<>>
  /\ selectedRoom = Null
  /\ dbWrites = <<>>
  /\ last = [op |-> "none", outcome |-> "ok", notes |-> <<>>]
  /\ hist = NoHistory
  /\ pending = Null
  /\ notifications = <<>>
  /\ noteHist = <<>>
  /\ ticker = NoTicker
  /\ mounted = NoRooms
  /\ shown = Null
  /\ parked = Some(Session(Some(OtherProfile), IdleTimer, rooms))

\* a step of the acting session; its status changes are pushed to the other
InSession ==
  /\ Within(MaxRows)
  /\ parked' = Some(OnRoomsPushed(Val(parked), dbRooms, dbRooms'))
  /\ UNCHANGED <<dbInspections, selectedRoom, hist, pending, notifications,
                 noteHist, ticker, mounted, shown>>

\* the other actor acts next
SwitchActor ==
  /\ currentUser' = Val(parked).currentUser
  /\ timer' = Val(parked).timer
  /\ rooms' = Val(parked).rooms
  /\ parked' = Some(Session(currentUser, timer, rooms))
  /\ Called("switch", "ok", <<>>)
  /\ UNCHANGED <<now, dbRooms, dbAudit, dbWorkLogs, dbWrites, dbInspections,
                 selectedRoom, hist, pending, notifications, noteHist, ticker,
                 mounted, shown>>

\* the clock moves on by a tick period
ClockMoves ==
  /\ now + TickIntervalMs <= MaxClockMs
  /\ now' = now + TickIntervalMs
  /\ Called("clock", "ok", <<>>)
  /\ UNCHANGED <<currentUser, rooms, timer, dbRooms, dbAudit, dbWorkLogs,
                 dbWrites, dbInspections, selectedRoom, hist, envVars>>

NextActors ==
  \/ SwitchActor
  \/ ClockMoves
  \/ Tick
  \/ \E s \in PushedStatuses : ChangeStatus("A101", s, NoFailure) /\ InSession
  \/ \E t \in TaskType : StartTask("A101", t, NoFailure) /\ InSession
  \/ PauseTask(NoFailure) /\ InSession
  \/ ResumeTask(NoFailure) /\ InSession
  \/ FinishTask("A101", Null, NoFailure) /\ InSession

SpecActors == InitActors /\ [][NextActors]_vars

(***************************************************************************)
(* SpecAudit: the audit table under createAuditLog and fetchAuditLogs.     *)
(* The rows come from two actors, whose clocks stamp them; the manager     *)
(* dashboard queries the table and keeps the rows it got.                  *)
(***************************************************************************)
\* the timestamps of the rows
Timestamps == {1, 2}

\* the rows changeRoomStatus inserts
AuditRows ==
  {[room_number |-> r, changed_by |-> p, from_status |-> "Dirty",
    to_status |-> "Cleaning", timestamp |-> t] :
     r \in RoomNumbers, p \in Profiles \cup {OtherProfile}, t \in Timestamps}

\* a query without filters
NoFilters == [date_from |-> Null, date_to |-> Null, room_number |-> Null,
              changed_by |-> Null]

\* the filters of a query: none, each one alone, and room and actor in a range
AuditFilters ==
  {NoFilters,
   [NoFilters EXCEPT !.date_from = Some(2)],
   [NoFilters EXCEPT !.date_to = Some(1)],
   [NoFilters EXCEPT !.room_number = Some("A101")],
   [NoFilters EXCEPT !.changed_by = Some("hk1")],
   [date_from |-> Some(1), date_to |-> Some(2), room_number |-> Some("A101"),
    changed_by |-> Some("hk1")]}

AuditFrame ==
  UNCHANGED <<currentUser, rooms, timer, now, dbRooms, dbWorkLogs, dbInspections,
              selectedRoom, dbWrites, hist, pending, notifications, noteHist,
              ticker, mounted, parked>>

\* createAuditLog(log); the rows a dashboard shows are no longer the table's
CreateAuditLog(log) ==
  /\ Len(dbAudit) < MaxAuditRows
  /\ dbAudit' = createAuditLog(dbAudit, log)
  /\ shown' = IF IsNull(shown) THEN Null ELSE Some([Val(shown) EXCEPT !.fresh = FALSE])
  /\ Called("createAuditLog", "ok", <<>>)
  /\ AuditFrame

\* setAuditLogs(await fetchAuditLogs(filters)); it is a rerun when the rows
\* shown are those of the same query and no row was inserted since
FetchAuditLogs(filters) ==
  /\ shown' = Some([filters |-> filters,
                    result |-> fetchAuditLogs(dbAudit, filters),
                    fresh |-> TRUE,
                    rerun |-> /\ ~IsNull(shown)
                              /\ Val(shown).fresh
                              /\ Val(shown).filters = filters])
  /\ Called("fetchAuditLogs", "ok", <<>>)
  /\ UNCHANGED dbAudit
  /\ AuditFrame

NextAudit ==
  \/ \E log \in AuditRows : CreateAuditLog(log)
  \/ \E filters \in AuditFilters : FetchAuditLogs(filters)

SpecAudit == Init /\ [][NextAudit]_vars

(***************************************************************************)
(* SpecOverlap: pauseTask and resumeTask suspended at their repository     *)
(* call while the session goes on: startTask and finishTask run in between *)
(* (from another click), and the suspended call then resumes with the      *)
(* timer it read when it was called and the store as it is now.            *)
(***************************************************************************)
\* pauseTask or resumeTask suspended at its repository call, with the log id
\* and the elapsed time of the timer it was called with
SuspendedTimerCall(op, at, tm) ==
  Some([op |-> op, at |-> at, logId |-> tm.currentLogId,
        elapsedTime |-> tm.elapsedTime])

OverlapFrame ==
  UNCHANGED <<currentUser, rooms, now, dbRooms, dbAudit, dbWrites, dbInspections,
              selectedRoom, hist, notifications, noteHist, ticker, mounted,
              parked, shown>>

\* pauseTask() up to await pauseWorkLog(...)
CallPauseTask ==
  /\ IsNull(pending)
  /\ IF IsNull(timer.currentLogId)
     THEN Called("pauseTask", "returned", <<>>) /\ UNCHANGED pending
     ELSE /\ pending' = SuspendedTimerCall("pauseTask", "pauseWorkLog", timer)
          /\ UNCHANGED last
  /\ UNCHANGED <<timer, dbWorkLogs>>
  /\ OverlapFrame

\* resumeTask() up to await resumeWorkLog(...)
CallResumeTask ==
  /\ IsNull(pending)
  /\ IF IsNull(timer.currentLogId)
     THEN Called("resumeTask", "returned", <<>>) /\ UNCHANGED pending
     ELSE /\ pending' = SuspendedTimerCall("resumeTask", "resumeWorkLog", timer)
          /\ UNCHANGED last
  /\ UNCHANGED <<timer, dbWorkLogs>>
  /\ OverlapFrame

\* pauseWorkLog resolves: pauseTimer() and the notification
ResumeAfterPauseWorkLog ==
  /\ ~IsNull(pending)
  /\ Val(pending).at = "pauseWorkLog"
  /\ dbWorkLogs' = pauseWorkLog(dbWorkLogs, Val(pending).logId, Val(pending).elapsedTime)
  /\ timer' = pauseTimer(timer)
  /\ pending' = Null
  /\ Called("pauseTask", "ok", <<Note("Task paused", "info")>>)
  /\ OverlapFrame

\* resumeWorkLog resolves: resumeTimer() and the notification
ResumeAfterResumeWorkLog ==
  /\ ~IsNull(pending)
  /\ Val(pending).at = "resumeWorkLog"
  /\ dbWorkLogs' = resumeWorkLog(dbWorkLogs, Val(pending).logId)
  /\ timer' = resumeTimer(timer, now)
  /\ pending' = Null
  /\ Called("resumeTask", "ok", <<Note("Task resumed", "info")>>)
  /\ OverlapFrame

NextOverlap ==
  \/ CallPauseTask
  \/ CallResumeTask
  \/ ResumeAfterPauseWorkLog
  \/ ResumeAfterResumeWorkLog
  \/ \E t \in TaskType : StartTask("A101", t, NoFailure) /\ HookOnly(MaxRows)
  \/ \E s \in NextStatus : FinishTask("A101", s, NoFailure) /\ HookOnly(MaxRows)

SpecOverlap == Init /\ [][NextOverlap]_vars

(***************************************************************************)
(* SpecLive: one session whose finishTask is called again and again.  Any  *)
(* repository call may throw, but a finishTask for the timer's room whose  *)
(* calls all succeed is not put off for ever while a task is outstanding.  *)
(* Only startTask is held to the row bound, so that a task that was        *)
(* started can always be finished.                                         *)
(***************************************************************************)
LiveFrame == UNCHANGED <<dbInspections, selectedRoom, hist, envVars>>

\* the targets the modal offers for room r, or none given
LegalTargets(r) ==
  {Null} \cup {Some(s) : s \in availableStatuses(rooms[r].status).items}

\* finishTask for the timer's room, one of its repository calls throwing
FinishFails ==
  \E r \in RoomNumbers, f \in {"finishWorkLog", "updateRoomStatus", "createAuditLog"} :
    /\ timer.roomNumber = Some(r)
    /\ \E s \in LegalTargets(r) : FinishTask(r, s, f)
    /\ LiveFrame

\* finishTask for the timer's room with a legal target, every call succeeding
FinishSucceeds ==
  \E r \in RoomNumbers :
    /\ timer.roomNumber = Some(r)
    /\ \E s \in LegalTargets(r) : FinishTask(r, s, NoFailure)
    /\ LiveFrame

NextLive ==
  \/ Advance(2 * TickIntervalMs)
  \/ Tick
  \/ \E t \in TaskType, f \in {NoFailure, "createWorkLog"} :
        StartTask("A101", t, f) /\ HookOnly(MaxRows)
  \/ \E f \in {NoFailure, "pauseWorkLog"} : PauseTask(f) /\ LiveFrame
  \/ \E f \in {NoFailure, "resumeWorkLog"} : ResumeTask(f) /\ LiveFrame
  \/ FinishFails
  \/ FinishSucceeds

SpecLive == Init /\ [][NextLive]_vars /\ WF_vars(FinishSucceeds)

(***************************************************************************)
(* SpecLogin: one browser in which a profile is selected and logged out    *)
(* again (App.tsx).  Logging out clears currentUser and nothing else, so   *)
(* the handlers can be called with no user while a task is outstanding.    *)
(***************************************************************************)
\* handleRoleSelect(user): setCurrentUser(user)
HandleRoleSelect(user) ==
  /\ currentUser' = Some(user)
  /\ Called("handleRoleSelect", "ok", <<>>)
  /\ UNCHANGED <<rooms, timer, now, dbRooms, dbAudit, dbWorkLogs, dbInspections,
                 selectedRoom, dbWrites, hist, envVars>>

\* handleLogout(): setCurrentUser(null)
HandleLogout ==
  /\ currentUser' = Null
  /\ Called("handleLogout", "ok", <<>>)
  /\ UNCHANGED <<rooms, timer, now, dbRooms, dbAudit, dbWorkLogs, dbInspections,
                 selectedRoom, dbWrites, hist, envVars>>

NextLogin ==
  \/ \E user \in Profiles : HandleRoleSelect(user)
  \/ HandleLogout
  \/ \E s \in PushedStatuses, f \in StatusFailures :
        ChangeStatus("A101", s, f) /\ HookOnly(MaxRows)
  \/ \E t \in TaskType, f \in {NoFailure, "createWorkLog"} :
        StartTask("A101", t, f) /\ HookOnly(MaxRows)
  \/ PauseTask(NoFailure) /\ HookOnly(MaxRows)
  \/ \E s \in NextStatus, f \in {NoFailure, "finishWorkLog"} :
        FinishTask("A101", s, f) /\ HookOnly(MaxRows)

SpecLogin == Init /\ [][NextLogin]_vars

(***************************************************************************)
(* SpecFormat: the dashboards render a duration with formatDuration.  The  *)
(* duration is drawn from the first seconds of a task and from the seconds *)
(* around its hundredth hour, where the hours take a third digit.          *)
(***************************************************************************)
Durations ==
  (0 .. MaxSeconds) \cup {100 * 3600 - 60 + d : d \in 0 .. MaxSeconds}

\* a duration waits to be rendered
InitFormat ==
  /\ currentUser \in {Null} \cup {Some(p) : p \in Profiles}
  /\ dbRooms = InitialStatus
  /\ rooms = [r \in RoomNumbers |-> [status |-> dbRooms[r], assigned_to |-> Null]]
  /\ timer = IdleTimer
  /\ now = TickIntervalMs
  /\ dbAudit = <<>>
  /\ dbWorkLogs = <<>>
  /\ dbInspections = <<>>
  /\ selectedRoom = Null
  /\ dbWrites = <<>>
  /\ last = [op |-> "none", outcome |-> "ok", notes |-> <<>>]
  /\ hist = NoHistory
  /\ pending = Null
  /\ notifications = <<>>
  /\ noteHist = <<>>
  /\ ticker = NoTicker
  /\ mounted = NoRooms
  /\ parked = Null
  /\ shown \in {Some([seconds |-> s, text |-> Null]) : s \in Durations}

\* {formatDuration(seconds)} in a dashboard
FormatDuration ==
  /\ ~IsNull(shown)
  /\ shown' = Some([Val(shown) EXCEPT !.text = Some(formatDuration(Val(shown).seconds))])
  /\ Called("formatDuration", "ok", <<>>)
  /\ UNCHANGED <<currentUser, rooms, timer, now, dbRooms, dbAudit, dbWorkLogs,
                 dbInspections, selectedRoom, dbWrites, hist, pending,
                 notifications, noteHist, ticker, mounted, parked>>

NextFormat == FormatDuration

SpecFormat == InitFormat /\ [][NextFormat]_vars

(***************************************************************************)
(* Properties.                                                             *)
(***************************************************************************)
AllFailures ==
  StatusFailures \cup {"createWorkLog", "pauseWorkLog", "resumeWorkLog", "finishWorkLog"}

LoggedIn == ~IsNull(currentUser)

\* the room's status is a legal next state of `from` in the transition table
Legal(from, to) == to \in availableStatuses(from).items

\* C1: changeStatus on a room at `from` succeeds (status becomes `to`, one audit
\* entry appended) iff `to` is a legal next state of `from`; otherwise it fails
\* and the room's status and the audit trail are unchanged.
C1_ChangeStatusIffLegal ==
  [][\A r \in RoomNumbers, s \in RoomStatus :
       (LoggedIn /\ ChangeStatus(r, s, NoFailure)) =>
         IF Legal(rooms[r].status, s)
         THEN /\ rooms'[r].status = s
              /\ dbRooms'[r] = s
              /\ Len(dbAudit') = Len(dbAudit) + 1
         ELSE /\ UNCHANGED <<rooms, dbRooms, dbAudit>>
              /\ last'.outcome = "error"]_vars

\* C2: every audit entry records an edge of the transition table; in particular
\* none has from_status = to_status.
C2_AuditEntriesAreEdges ==
  \A i \in DOMAIN dbAudit :
     /\ dbAudit[i].from_status # dbAudit[i].to_status
     /\ Legal(dbAudit[i].from_status, dbAudit[i].to_status)

\* C3: startTask while the timer is not Idle fails: no work log is created, the
\* timer keeps its log id, room, task type and elapsed time, no room status changes.
C3_StartTaskRejectedWhileActive ==
  [][\A r \in RoomNumbers, t \in TaskType, f \in AllFailures :
       (LoggedIn /\ ~IsNull(timer.currentLogId) /\ StartTask(r, t, f)) =>
         /\ UNCHANGED <<timer, dbWorkLogs, rooms, dbRooms, dbAudit>>
         /\ last'.outcome # "ok"]_vars

\* C4: for each staff member at most one work log is not Completed.
C4_OneActiveLogPerStaff ==
  \A p \in Profiles :
     Cardinality({i \in DOMAIN dbWorkLogs :
                    dbWorkLogs[i].staff_id = p /\ dbWorkLogs[i].status # "Completed"}) <= 1

\* C5: a finishTask called when no task is outstanding (the task was finished and
\* no startTask came since) returns without effect: no audit entry, no write to the
\* work log, the room status and the Idle timer unchanged, nothing emitted.
\* (last'.op names the handler a step ran, whatever its room, status and outcome.)
C5_FinishWithoutTaskIsNoOp ==
  [][(IsNull(timer.currentLogId) /\ last'.op = "finishTask") =>
       /\ UNCHANGED <<rooms, timer, dbRooms, dbAudit, dbWorkLogs, dbWrites>>
       /\ last'.outcome = "returned"
       /\ last'.notes = <<>>]_vars

\* C5 witness: a finishTask has returned at once after the session's task was
\* finished and with no task started since.
C5_Witness ==
  /\ LoggedIn
  /\ last.op = "finishTask"
  /\ last.outcome = "returned"
  /\ timer = IdleTimer
  /\ dbWorkLogs # <<>>
  /\ \A i \in DOMAIN dbWorkLogs : dbWorkLogs[i].status = "Completed"

\* C6: finishTask resets the timer only if the status change it resolved (when one
\* was needed) was committed; with an illegal target or a failed status change it
\* fails, the room status is unchanged and the task stays outstanding.
C6_FinishKeepsTaskUnlessCommitted ==
  [][\A r \in RoomNumbers, s \in NextStatus, f \in AllFailures :
       (~finishTaskReturns /\ FinishTask(r, s, f)) =>
         LET final == finalStatus(s, timer.taskType, Snapshot(r))
             needed == final # rooms[r].status
         IN /\ (needed /\ (~Legal(rooms[r].status, final)
                            \/ f \in {"updateRoomStatus", "createAuditLog"})) =>
                  /\ UNCHANGED <<rooms, timer>>
                  /\ last'.outcome = "error"
            /\ IsNull(timer'.currentLogId) =>
                  (~needed \/ rooms'[r].status = final)]_vars

\* C7: finishTask(room) takes effect only when the outstanding task is for that
\* room; otherwise nothing changes.
C7_FinishOnlyForTimersRoom ==
  [][\A r \in RoomNumbers, s \in NextStatus, f \in AllFailures :
       (timer.roomNumber # Some(r) /\ FinishTask(r, s, f)) =>
         /\ UNCHANGED <<rooms, timer, dbRooms, dbAudit, dbWorkLogs>>
         /\ last'.outcome # "ok"]_vars

\* C8: startTask whose implied status is not a legal next state of the room's
\* status still starts the task, but leaves the room's status and the audit trail
\* unchanged.
C8_IllegalImpliedStatusSkipped ==
  [][\A r \in RoomNumbers, t \in {"Cleaning", "Repair", "Maintenance"} :
       (/\ LoggedIn
        /\ ~Legal(rooms[r].status, startStatus(t, Snapshot(r)))
        /\ StartTask(r, t, NoFailure)) =>
         /\ timer'.isRunning
         /\ Len(dbWorkLogs') = Len(dbWorkLogs) + 1
         /\ UNCHANGED <<rooms, dbRooms, dbAudit>>]_vars

C10_RegistryCommittedBeforeAudit ==
  [][\A r \in RoomNumbers, s \in RoomStatus :
       (LoggedIn /\ ChangeStatus(r, s, "createAuditLog")) =>
         /\ rooms'[r].status = s
         /\ dbRooms'[r] = s
         /\ last'.outcome = "error"]_vars

\* C11: the audit trail is append-only: after every step it has the audit trail
\* before the step as a prefix (no entry is removed, reordered or modified).
C11_AuditAppendOnly ==
  [][/\ Len(dbAudit') >= Len(dbAudit)
     /\ SubSeq(dbAudit', 1, Len(dbAudit)) = dbAudit]_vars

\* C11 witness: a second entry was appended to a trail that held a different one.
C11_Witness ==
  /\ Len(dbAudit) = 2
  /\ dbAudit[1] # dbAudit[2]
  /\ last.outcome = "ok"

\* the timer's states
Idle(tm) == IsNull(tm.currentLogId)
Running(tm) == ~IsNull(tm.currentLogId) /\ tm.isRunning
Paused(tm) == ~IsNull(tm.currentLogId) /\ ~tm.isRunning

\* C12: under a clock that only moves forward, a tick() while Running never
\* decreases the elapsed time, and a tick() while Paused or Idle leaves the timer,
\* its elapsed time included, exactly as it was.
C12_TickMonotoneAndFrozen ==
  [][last'.op = "tick" =>
       IF timer.isRunning
       THEN timer'.elapsedTime >= timer.elapsedTime
       ELSE timer' = timer]_vars

\* C12 witness: a tick came while the timer was Paused with time accumulated, after
\* the clock had moved on.
C12_Witness ==
  /\ last.op = "tick"
  /\ Paused(timer)
  /\ timer.elapsedTime > 0
  /\ now > TickIntervalMs + 1500

\* C13: a pause, then any number of ticks while Paused, then a resume followed by a
\* pause with no clock advance in between, leaves the elapsed time equal to its
\* value at the first pause, and the log id, room number and task type unchanged.
C13_PauseResumePauseRoundTrip ==
  [][(/\ last'.op = "pauseTask"
      /\ last'.outcome = "ok"
      /\ timer.isRunning
      /\ ~IsNull(hist.paused)) =>
       LET first == Val(hist.paused)
       IN /\ timer'.elapsedTime = first.elapsedTime
          /\ timer'.currentLogId = first.currentLogId
          /\ timer'.roomNumber = first.roomNumber
          /\ timer'.taskType = first.taskType
          /\ ~timer'.isRunning]_vars

\* C13 witness: the round trip was completed by a timer that had accumulated time,
\* with the clock moved on while it was Paused.
C13_Witness ==
  /\ hist.roundTrip
  /\ last.op = "pauseTask"
  /\ Paused(timer)
  /\ timer.elapsedTime > 0
  /\ now > TickIntervalMs + hist.runMs

\* the seconds held or persisted are within one tick interval of the time the
\* task has really run
WithinOneTick(seconds) ==
  /\ hist.runMs - seconds * 1000 < TickIntervalMs
  /\ seconds * 1000 - hist.runMs < TickIntervalMs

\* C14: after every tick() while Running the elapsed seconds held by the timer,
\* and at every pauseTask and finishTask the seconds persisted to the work log,
\* differ from the time really spent Running by less than one tick interval,
\* whatever the times at which the ticks arrive.
C14_DriftBelowOneTick ==
  [][/\ (last'.op = "tick" /\ Running(timer)) => WithinOneTick(timer'.elapsedTime)
     /\ (last'.op = "pauseTask" /\ last'.outcome = "ok" /\ Running(timer)) =>
          /\ WithinOneTick(timer'.elapsedTime)
          /\ WithinOneTick(Val(dbWorkLogs'[Val(timer.currentLogId)].total_duration))
     /\ (last'.op = "finishTask" /\ last'.outcome = "ok" /\ Running(timer)) =>
          WithinOneTick(Val(dbWorkLogs'[Val(timer.currentLogId)].total_duration))]_vars

\* C15: pauseTask while the timer is not Running (Idle, or already Paused) fails
\* and changes nothing: the timer and the work logs are unchanged and no
\* 'Task paused' notification is emitted.
C15_PauseRejectedUnlessRunning ==
  [][(~Running(timer) /\ last'.op = "pauseTask") =>
       /\ UNCHANGED <<timer, dbWorkLogs>>
       /\ last'.outcome # "ok"
       /\ \A i \in DOMAIN last'.notes : last'.notes[i].title # "Task paused"]_vars

\* C16: resumeTask while the timer is not Paused (Idle, or already Running) fails
\* and changes nothing: the start time is not captured again and the work logs
\* are unchanged.
C16_ResumeRejectedUnlessPaused ==
  [][(~Paused(timer) /\ last'.op = "resumeTask") =>
       /\ UNCHANGED <<timer, dbWorkLogs>>
       /\ last'.outcome # "ok"]_vars

\* the timer holds a task of this type on this room
TaskOn(r, taskType) ==
  /\ ~Idle(timer)
  /\ timer.roomNumber = Some(r)
  /\ timer.taskType = Some(taskType)

\* C17: for a room at Dirty with an Idle timer, startTask(Cleaning) makes the room
\* Cleaning and the timer Running; pauses and resumes leave the room and the task
\* as they are; finishTask with no explicit status then makes the room Vacant
\* Clean, returns the timer to Idle and appends exactly one audit entry, from
\* Cleaning to Vacant Clean.
C17_CleaningCycle ==
  [][/\ (/\ LoggedIn
          /\ rooms["A101"].status = "Dirty"
          /\ Idle(timer)
          /\ HandleQuickStart("A101")) =>
            /\ rooms'["A101"].status = "Cleaning"
            /\ Running(timer')
            /\ TaskOn("A101", "Cleaning")'
     /\ (TaskOn("A101", "Cleaning") /\ last'.op \in {"pauseTask", "resumeTask"}) =>
            /\ UNCHANGED <<rooms, dbAudit>>
            /\ TaskOn("A101", "Cleaning")'
     /\ (/\ LoggedIn
          /\ TaskOn("A101", "Cleaning")
          /\ rooms["A101"].status = "Cleaning"
          /\ HandleQuickFinish("A101")) =>
            /\ rooms'["A101"].status = "Vacant Clean"
            /\ dbRooms'["A101"] = "Vacant Clean"
            /\ timer' = IdleTimer
            /\ dbAudit' = Append(dbAudit,
                                 [room_number |-> "A101",
                                  changed_by |-> Val(currentUser),
                                  from_status |-> "Cleaning",
                                  to_status |-> "Vacant Clean"])]_vars

\* C17 witness: the cycle has run from Dirty to Vacant Clean and left the two
\* audit entries of its start and its finish, and its one work log Completed.
C17_Witness ==
  /\ last.op = "finishTask"
  /\ last.outcome = "ok"
  /\ timer = IdleTimer
  /\ rooms["A101"].status = "Vacant Clean"
  /\ Len(dbAudit) = 2
  /\ dbAudit[1].from_status = "Dirty"
  /\ dbAudit[1].to_status = "Cleaning"
  /\ dbAudit[2].from_status = "Cleaning"
  /\ dbAudit[2].to_status = "Vacant Clean"
  /\ Len(dbWorkLogs) = 1
  /\ dbWorkLogs[1].status = "Completed"

\* C18: for an Inspection task on a Vacant Clean room, submitting a score below
\* the threshold sets the room to Dirty and a score at or above it sets the room
\* to Vacant Clean Inspected; either way one audit entry is recorded, the
\* transition is an edge of the table, and the status_after of the inspection
\* record equals the room's resulting status.
C18_InspectionOutcome ==
  [][\A sc \in Scores :
       (/\ TaskOn("A101", "Inspection")
        /\ rooms["A101"].status = "Vacant Clean"
        /\ ~IsNull(selectedRoom)
        /\ Val(selectedRoom).room_number = "A101"
        /\ HandleSubmitInspection(sc, NoFailure)) =>
         LET result == IF sc < InspectionPassScore
                       THEN "Dirty" ELSE "Vacant Clean Inspected"
         IN /\ rooms'["A101"].status = result
            /\ dbRooms'["A101"] = result
            /\ Len(dbAudit') = Len(dbAudit) + 1
            /\ dbAudit'[Len(dbAudit')].from_status = "Vacant Clean"
            /\ dbAudit'[Len(dbAudit')].to_status = result
            /\ Legal("Vacant Clean", result)
            /\ Len(dbInspections') = Len(dbInspections) + 1
            /\ dbInspections'[Len(dbInspections')].status_after = rooms'["A101"].status
            /\ timer' = IdleTimer]_vars

\* C18 witness: an inspection of the Vacant Clean room was submitted at the
\* threshold and the room passed.
C18_Witness ==
  /\ last.op = "finishTask"
  /\ last.outcome = "ok"
  /\ Len(dbInspections) = 1
  /\ dbInspections[1].score = InspectionPassScore
  /\ dbInspections[1].status_after = "Vacant Clean Inspected"
  /\ rooms["A101"].status = "Vacant Clean Inspected"
  /\ Len(dbAudit) = 1
  /\ dbAudit[1].from_status = "Vacant Clean"

\* C19: a room's assigned_to is the staff member's id exactly while that staff
\* member has an outstanding (Running or Paused) task on the room, and is unset
\* otherwise.
C19_AssignedWhileTaskOutstanding ==
  \A r \in RoomNumbers :
     rooms[r].assigned_to =
       IF ~Idle(timer) /\ timer.roomNumber = Some(r) THEN currentUser ELSE Null

\* C20: stopTimer and resetTimer, from any timer state, each leave the timer Idle
\* with log id, room number, task type and start time cleared and elapsed = 0,
\* and applying either a second time changes nothing.
C20_StopAndResetLeaveIdle ==
  [][last'.op \in {"stopTimer", "resetTimer"} =>
       /\ timer' = IdleTimer
       /\ stopTimer(timer') = timer'
       /\ resetTimer(timer') = timer']_vars

\* the call emitted at least one error notification
EmittedError(call) == \E i \in DOMAIN call.notes : call.notes[i].type = "error"

\* C21: every call of changeRoomStatus, startTask, pauseTask, resumeTask or
\* finishTask that does not take effect emits at least one error notification,
\* and where a validation stopped it (no logged-in actor, no outstanding task)
\* rooms, timer and audit trail are unchanged.
C21_FailuresLoudAndClean ==
  [][last'.outcome # "ok" =>
       /\ EmittedError(last')
       /\ (last'.outcome = "returned" \/ ~LoggedIn) =>
            UNCHANGED <<rooms, timer, dbAudit>>]_vars

\* C22: while startTask, changeRoomStatus or finishTask is suspended at a
\* repository call, a reader of the store and of the durable store sees what it
\* saw when the call began: no timer Running for a room whose implied status is
\* not yet applied, no status patched in the durable store without its audit
\* entry and its registry update.
C22_NoPartialCompletionVisible ==
  ~IsNull(pending) => Visible = Val(pending).before

\* a notification without its read flag
Unflagged(n) == [title |-> n.title, type |-> n.type, id |-> n.id]

\* C23: the list holds at most 50 notifications, namely the min(n, 50) most
\* recently added ones, newest first; a notification is added unread, and
\* adding flags no other one; markNotificationRead(id) sets the read flag of
\* the entries with that id and changes nothing else.
C23_NotificationsCapped ==
  [][/\ Len(notifications') <= MaxNotifications
     /\ Len(notifications') =
          (IF Len(noteHist') < MaxNotifications THEN Len(noteHist')
           ELSE MaxNotifications)
     /\ \A i \in DOMAIN notifications' :
          Unflagged(notifications'[i]) = noteHist'[i]
     /\ last'.op = "addNotification" =>
          /\ ~notifications'[1].read
          /\ \A i \in 2..Len(notifications') :
               notifications'[i] = notifications[i - 1]
     /\ last'.op = "markNotificationRead" =>
          \E id \in MarkIds :
            /\ Len(notifications') = Len(notifications)
            /\ \A i \in DOMAIN notifications :
                 notifications'[i] =
                   IF notifications[i].id = id
                   THEN [notifications[i] EXCEPT !.read = TRUE]
                   ELSE notifications[i]]_vars

\* more than 50 notifications were added, the list is full and holds one
\* that was marked read next to unread ones
C23_Witness ==
  /\ Len(noteHist) > MaxNotifications
  /\ Len(notifications) = MaxNotifications
  /\ \E i, j \in DOMAIN notifications :
       notifications[i].read /\ ~notifications[j].read

\* C24: at most one interval is active and at most one tick() is due per
\* period; startTimerInterval leaves exactly the interval it created;
\* stopTimerInterval without an interval changes nothing; with no interval
\* held none is active or due, and tick() only runs while one is held.
C24_OneTickSource ==
  [][/\ Cardinality(ticker'.active) <= 1
     /\ Cardinality(ticker'.due) <= 1
     /\ IsNull(ticker'.handle) => ticker'.active = {} /\ ticker'.due = {}
     /\ last'.op = "startTimerInterval" =>
          ticker'.active = {Val(ticker'.handle)}
     /\ (last'.op = "stopTimerInterval" /\ IsNull(ticker.handle)) =>
          UNCHANGED <<ticker, timer>>
     /\ last'.op = "stopTimerInterval" => IsNull(ticker'.handle)
     /\ last'.op = "tick" => ~IsNull(ticker.handle)]_vars

\* the interval was started twice, one interval is active, and its ticks
\* have advanced a task's timer
C24_Witness ==
  /\ ticker.issued >= 2
  /\ Cardinality(ticker.active) = 1
  /\ timer.elapsedTime >= 2

\* the adjacency table as specified; any other status has no successor
SpecifiedSuccessors(from) ==
  CASE from = "Dirty" -> {"Check-out Inspected", "Cleaning", "Out of Order"}
    [] from = "Check-out Inspected" -> {"Cleaning", "Out of Order"}
    [] from = "Cleaning" -> {"Vacant Clean", "Dirty"}
    [] from = "Vacant Clean" -> {"Vacant Clean Inspected", "Dirty", "Occupied"}
    [] from = "Vacant Clean Inspected" -> {"Occupied", "Dirty"}
    [] from = "Occupied" -> {"Dirty", "Out of Order"}
    [] from = "Out of Order" -> {"Dirty"}
    [] OTHER -> {}

\* C25: for the room the modal is open on, the statuses the code offers are
\* a list equal to the specified successors of the room's status, which is
\* empty for a status that is none of the seven, and never holds the status
\* itself.
C25_TransitionTable ==
  ~IsNull(selectedRoom) =>
    LET from == Val(selectedRoom).status
        offered == availableStatuses(from)
    IN /\ offered.isArray
       /\ offered.items = SpecifiedSuccessors(from)
       /\ from \notin offered.items

\* C26: a startTask that takes effect leaves the room at the status its task
\* type implies (Cleaning: Cleaning; Repair, Maintenance: Out of Order;
\* Inspection: the status the room has); when that is the room's status, as it
\* always is for an Inspection, the registry, the stored statuses and the audit
\* trail are unchanged, and the timer is Running at 0 for the room and the type.
C26_StartImpliedStatus ==
  [][\A r \in RoomNumbers, t \in TaskType :
       (LoggedIn /\ StartTask(r, t, NoFailure)) =>
         LET implied == CASE t = "Cleaning" -> "Cleaning"
                          [] t \in {"Repair", "Maintenance"} -> "Out of Order"
                          [] t = "Inspection" -> rooms[r].status
         IN /\ rooms'[r].status = implied
            /\ (t = "Inspection" \/ implied = rooms[r].status) =>
                 /\ UNCHANGED <<rooms, dbRooms, dbAudit>>
                 /\ Running(timer')
                 /\ timer'.elapsedTime = 0
                 /\ timer'.roomNumber = Some(r)
                 /\ timer'.taskType = Some(t)]_vars

\* an Inspection was started on the Dirty room: the timer runs for it, the room
\* is still Dirty and nothing was audited
C26_Witness ==
  /\ last.op = "startTask"
  /\ last.outcome = "ok"
  /\ timer.taskType = Some("Inspection")
  /\ timer.roomNumber = Some("A101")
  /\ timer.isRunning
  /\ timer.elapsedTime = 0
  /\ rooms["A101"].status = "Dirty"
  /\ dbAudit = <<>>

C28_PatchFrameAndNotFound ==
  [][\A roomId \in RoomNumbers \cup {UnknownRoom}, updates \in Patches :
       UpdateRoom(roomId, updates) =>
         IF roomId \in DOMAIN rooms
         THEN /\ \A r \in DOMAIN rooms \ {roomId} : rooms'[r] = rooms[r]
              /\ \A f \in DOMAIN updates : rooms'[roomId][f] = updates[f]
              /\ \A f \in DOMAIN rooms[roomId] \ DOMAIN updates :
                   rooms'[roomId][f] = rooms[roomId][f]
              /\ last'.outcome = "ok"
         ELSE /\ rooms' = rooms
              /\ last'.outcome = "error"]_vars

\* C29: but for loadRooms, no step removes a room from the registry; the
\* handling of a pushed INSERT leaves every room of the registry in it and
\* as it was; the handling of a pushed UPDATE changes no room but the one
\* with the pushed id.
C29_RoomsNeverDeleted ==
  [][/\ last'.op # "loadRooms" => DOMAIN rooms \subseteq DOMAIN rooms'
     /\ last'.op = "INSERT" =>
          \A r \in DOMAIN rooms : r \in DOMAIN rooms' /\ rooms'[r] = rooms[r]
     /\ \A roomId \in RoomNumbers \cup NewRooms, s \in PushedStatuses :
          PushedUpdate(roomId, s) =>
            \A r \in DOMAIN rooms \ {roomId} :
              r \in DOMAIN rooms' /\ rooms'[r] = rooms[r]]_vars

Occurrences(rows, row) == Cardinality({i \in DOMAIN rows : rows[i] = row})

C32_FailedWorkLogCallHasNoEffect ==
  [][(/\ last'.op \in {"startTask", "pauseTask", "resumeTask", "finishTask"}
      /\ last'.outcome = "error") =>
        /\ UNCHANGED <<timer, rooms, dbRooms, dbAudit, dbWorkLogs, dbWrites>>
        /\ EmittedError(last')]_vars

\* a pauseTask failed at pauseWorkLog: the timer still runs and its work log
\* is still In Progress
C32_Witness ==
  /\ last.op = "pauseTask"
  /\ last.outcome = "error"
  /\ Running(timer)
  /\ dbWorkLogs[Val(timer.currentLogId)].status = "In Progress"

\* C33: every audit entry appended has as from_status the status the registry
\* held for its room right before the step, and so continues the chain of its
\* room: its from_status is the to_status of the room's entry before it.
C33_AuditChainContinuity ==
  [][Len(dbAudit') > Len(dbAudit) =>
       LET entry == dbAudit'[Len(dbAudit')]
           earlier == {i \in DOMAIN dbAudit :
                         dbAudit[i].room_number = entry.room_number}
       IN /\ entry.from_status = rooms[entry.room_number].status
          /\ earlier # {} =>
               entry.from_status =
                 dbAudit[CHOOSE i \in earlier : \A j \in earlier : j <= i].to_status]_vars

\* C34: the timer is well-formed: Running it has a start time and a work
\* log, it has a start time only while Running, and without a work log it is
\* not Running and names no room and no task type.
C34_TimerWellFormed ==
  /\ timer.isRunning => ~IsNull(timer.startTime) /\ ~IsNull(timer.currentLogId)
  /\ ~IsNull(timer.startTime) => timer.isRunning
  /\ IsNull(timer.currentLogId) =>
       ~timer.isRunning /\ IsNull(timer.roomNumber) /\ IsNull(timer.taskType)

\* C35: between handler calls the work log of the timer's task is In Progress
\* exactly when the timer is Running and Paused exactly when it is Paused, and
\* every other work log is Completed.
C35_WorkLogMirrorsTimer ==
  /\ ~IsNull(timer.currentLogId) =>
       LET log == dbWorkLogs[Val(timer.currentLogId)]
       IN /\ (log.status = "In Progress") <=> Running(timer)
          /\ (log.status = "Paused") <=> Paused(timer)
  /\ \A i \in DOMAIN dbWorkLogs :
       Some(i) # timer.currentLogId => dbWorkLogs[i].status = "Completed"

\* C36: the two actors never have an outstanding (Running or Paused) task on
\* one room at the same time.
C36_OneTaskPerRoom ==
  ~IsNull(parked) =>
    ~(/\ ~Idle(timer)
      /\ ~Idle(Val(parked).timer)
      /\ timer.roomNumber = Val(parked).timer.roomNumber)

\* C37: an outstanding task is brought back to Idle by the finishTask that
\* succeeds, and an Idle timer stays Idle under tick, pauseTask and resumeTask.
C37_OutstandingTaskEnds ==
  /\ (~Idle(timer)) ~> Idle(timer)
  /\ [][(Idle(timer) /\ last'.op \in {"tick", "pauseTask", "resumeTask"}) =>
          Idle(timer')]_vars

\* a task that was started has ended: its work log is Completed with its
\* duration and the timer is Idle again
C37_Witness ==
  /\ last.op = "finishTask"
  /\ last.outcome = "ok"
  /\ Idle(timer)
  /\ \E i \in DOMAIN dbWorkLogs :
        dbWorkLogs[i].status = "Completed" /\ ~IsNull(dbWorkLogs[i].total_duration)

\* C38: with no user logged in, changeRoomStatus, startTask and finishTask
\* leave the rooms, the timer, the work logs and the audit trail as they are,
\* and no repository call is made: nothing is written and no call's failure
\* is reported, whichever call was about to throw.
C38_NoUserNoEffect ==
  [][(/\ IsNull(currentUser)
      /\ last'.op \in {"changeRoomStatus", "startTask", "finishTask"}) =>
        /\ UNCHANGED <<rooms, timer, dbRooms, dbAudit, dbWorkLogs, dbWrites>>
        /\ \A i \in DOMAIN last'.notes :
              last'.notes[i].title = "Authentication required"]_vars

\* finishTask was called after a logout, with a task still outstanding
C38_Witness ==
  /\ IsNull(currentUser)
  /\ last.op = "finishTask"
  /\ last.outcome = "returned"
  /\ ~Idle(timer)
  /\ dbWorkLogs[Val(timer.currentLogId)].status # "Completed"

\* the positions of the colons of a text
Colons(text) == {i \in DOMAIN text : text[i] = ":"}

\* the number a text of decimal digits denotes; -1 if it is not such a text
RECURSIVE NumberOf(_)
NumberOf(text) ==
  IF text = <<>> THEN -1
  ELSE LET digit == {d \in 0 .. 9 : DigitChars[d + 1] = text[Len(text)]}
           front == SubSeq(text, 1, Len(text) - 1)
       IN IF digit = {} THEN -1
          ELSE IF front = <<>> THEN CHOOSE d \in digit : TRUE
          ELSE IF NumberOf(front) < 0 THEN -1
          ELSE 10 * NumberOf(front) + (CHOOSE d \in digit : TRUE)

\* text reads HH:MM:SS for the duration seconds
ReadsAs(text, seconds) ==
  /\ Cardinality(Colons(text)) = 2
  /\ LET first == CHOOSE i \in Colons(text) : \A j \in Colons(text) : i <= j
         second == CHOOSE i \in Colons(text) : \A j \in Colons(text) : j <= i
         HH == SubSeq(text, 1, first - 1)
         MM == SubSeq(text, first + 1, second - 1)
         SS == SubSeq(text, second + 1, Len(text))
     IN /\ Len(HH) >= 2 /\ Len(MM) = 2 /\ Len(SS) = 2
        /\ NumberOf(HH) >= 0
        /\ NumberOf(MM) \in 0 .. 59
        /\ NumberOf(SS) \in 0 .. 59
        /\ NumberOf(HH) * 3600 + NumberOf(MM) * 60 + NumberOf(SS) = seconds

\* C39: the text formatDuration returns for s reads HH:MM:SS, every field of
\* two digits at least, MM and SS within 00..59, and denotes s seconds.
C39_FormatDuration ==
  (~IsNull(shown) /\ ~IsNull(Val(shown).text)) =>
     ReadsAs(Val(Val(shown).text), Val(shown).seconds)

\* a duration past the hundredth hour was rendered, minutes and seconds not zero
C39_Witness ==
  /\ ~IsNull(shown)
  /\ ~IsNull(Val(shown).text)
  /\ Val(shown).seconds >= 100 * 3600
  /\ Val(shown).seconds % 60 # 0
  /\ (Val(shown).seconds % 3600) \div 60 # 0
  /\ Len(Val(Val(shown).text)) = 9

====
